---- MODULE Spec2Model ----
(***************************************************************************)
(* Model of rspamd's Lua map bindings (src/lua/lua_map.c) and of the RSA   *)
(* sign/verify bindings (src/lua/lua_rsa.c).                               *)
(*                                                                         *)
(* Spec     : one callback map (lua_config_add_map) driven through         *)
(*            ingestion cycles by the map registry, with the Lua side      *)
(*            calling set_callback / get_key / set_sign_key, also from     *)
(*            inside the handler that lua_map_fin invokes.                 *)
(* SpecRsa  : lua_rsa_sign_memory / lua_rsa_verify_memory applied to       *)
(*            bounded byte strings, keys and mutated inputs.               *)
(* SpecFile : sign and verify of one content held in memory and in a file  *)
(*            (lua_rsa_sign_file / lua_rsa_verify_file and the memory      *)
(*            functions), with open, fstat and mmap failing or not.        *)
(* SpecSave : lua_rsa_signature_save on a fresh or existing path, with     *)
(*            every outcome of open and write.                             *)
(* SpecHandle : the methods is_signed, get_proto, get_uri, get_sign_key    *)
(*            and set_sign_key on a handle of each constructor.            *)
(* SpecLookup : get_key on a handle of each variant with its backend.      *)
(* SpecCtor : the five constructors and the backend instances they         *)
(*            allocate and destroy, with rspamd_map_add failing or not.    *)
(* SpecSave also covers lua_rsa_signature_load of the saved path.          *)
(***************************************************************************)
EXTENDS Integers, Sequences, FiniteSets, TLC

(* ------------------------------ bounds -------------------------------- *)
MaxCycles == 2
MaxBuf == 2
MaxRefs == 2

(* ------------------------- program constants -------------------------- *)
NULL == 0
NoRef == -1

VARIABLES
    objs,        \* heap: every struct lua_map_callback_data ever allocated
    slot,        \* map->data.cbdata, the backend slot of the handle
    prev_data,   \* struct map_cb_data.prev_data of the running cycle
    cur_data,    \* struct map_cb_data.cur_data of the running cycle
    pc,          \* position of the map registry: idle | cycle | crashed
    cyc,         \* number of the running (or last) cycle
    nextRef,     \* next reference luaL_ref hands out
    is_signed,   \* map->map->is_signed
    trusted_pubkey, \* map->map->trusted_pubkey
    delivered,   \* chunks the registry delivered in this cycle, in order
    fin,         \* what the last lua_map_fin did
    lastOp,      \* the last call the Lua side made through the backend slot
    verifyLog,   \* buffers for which verify returned true in this cycle
    rpc,         \* position of the RSA script: idle | start | signed | ready | verified
    data,        \* the Lua string given to sign_memory
    privIdx,     \* the key pair whose private key signs
    sig,         \* the rsa_signature sign_memory returned
    tamper,      \* how the verifier's inputs differ from the signer's
    vdata,       \* the Lua string given to verify_memory
    vsig,        \* the rsa_signature given to verify_memory
    pubIdx,      \* the key pair whose public key verifies
    vres,        \* what verify_memory returned
    fpc,         \* position of the file script: idle | start | signed | verified
    fdata,       \* the content, in memory and in the data file
    fsig,        \* what the signing call returned: [ok, val, by]
    fres,        \* what the verifying call returned: none | true | false | nil
    fio,         \* the file accesses of the last call: [op, env, opens, closes]
    sfile,       \* the file at the path given to save: [exists, bytes]
    ssig,        \* the bytes of the rsa_signature being saved
    nsaves,      \* number of save calls made
    lastSave,    \* what the last save call met and returned
    lastLoad,    \* what the load call after it met and returned
    hdl,         \* the struct rspamd_lua_map behind a map handle
    backend,     \* map->data: [radix, hash]
    hostLE,      \* the host stores integers least significant byte first
    keys,        \* every rspamd_cryptobox_pubkey made so far: [val, refs]
    hkey,        \* map->map->trusted_pubkey, an index of keys or NULL
    lastOkStr,   \* the string of the last set_sign_key that returned
    lastCall,    \* the last method called on the handle and its result
    lastGet,     \* the last get_key call: its input and what it returned
    insts,       \* every backend instance allocated: [kind, mem, by, live]
    made         \* every constructor call: [ctor, ret, data]

mapVars == <<objs, slot, prev_data, cur_data, pc, cyc, nextRef, is_signed,
             trusted_pubkey, delivered, fin, lastOp, verifyLog>>

rsaVars == <<rpc, data, privIdx, sig, tamper, vdata, vsig, pubIdx, vres>>

fileVars == <<fpc, fdata, fsig, fres, fio>>

saveVars == <<sfile, ssig, nsaves, lastSave, lastLoad>>

hdlVars == <<hdl, backend, hostLE, keys, hkey, lastOkStr, lastCall,
             lastGet>>

ctorVars == <<insts, made>>

vars == <<mapVars, rsaVars, fileVars, saveVars, hdlVars, ctorVars>>

\* What the actions on the map, and those on the RSA functions, leave alone.
exceptMap == <<rsaVars, fileVars, saveVars, hdlVars, ctorVars>>

exceptRsa == <<mapVars, fileVars, saveVars, hdlVars, ctorVars>>

exceptFile == <<mapVars, rsaVars, saveVars, hdlVars, ctorVars>>

exceptSave == <<mapVars, rsaVars, fileVars, hdlVars, ctorVars>>

exceptHdl == <<mapVars, rsaVars, fileVars, saveVars, ctorVars>>

exceptCtor == <<mapVars, rsaVars, fileVars, saveVars, hdlVars>>

ObjIds == 1 .. (MaxCycles + 1)
PoolObj == 1
ChunkBytes == {1, 2}
MaxChunks == MaxBuf
Chunks == {<<>>} \cup {<<b>> : b \in ChunkBytes}
HandlerBodies == {"none", "set_callback", "get_key", "error"}

(* An unallocated cell, and the remains of a released one.                 *)
Unalloc == [st |-> "unalloc", ref |-> NoRef, hasData |-> FALSE, data |-> <<>>,
            lua_map |-> NULL, handed |-> 0, freedAt |-> 0, frees |-> 0]

\* The record of a cycle.  hadCb: the callback state the first chunk copied
\* from held a handler reference; done: lua_map_fin ran; nodata / nocb: the
\* diagnostic it gave; calls: the handler calls it made, as [ref, buf];
\* regAtFin: the newest registration when it started; slotBefore / freed:
\* the slot's content at that time and the state it released; inHandler:
\* what the handler did; gate: the map was signed with a trusted key set;
\* logged: the "call to ... failed" message was written; top: the depth of
\* the Lua stack when lua_map_fin returned, relative to its depth on entry;
\* prevRaised: the handler call of the cycle before this one raised.
NoFin == [done |-> FALSE, nodata |-> FALSE, nocb |-> FALSE, calls |-> <<>>,
          logged |-> FALSE, regAtFin |-> NoRef, slotBefore |-> NULL,
          freed |-> NULL, inHandler |-> "none", hadCb |-> FALSE,
          gate |-> FALSE, top |-> 0, prevRaised |-> FALSE]

\* No call made yet.  op: the function called; res: what it returned or
\* raised; target: the callback state it dereferenced (NULL: none); st: that
\* state's condition at the time of the access.
NoOp == [op |-> "none", res |-> "none", target |-> NULL, st |-> "none"]

Live(p) == p # NULL /\ objs[p].st = "live"

LastReg == IF nextRef > 1 THEN nextRef - 1 ELSE NoRef

SumLen(chs) == LET RECURSIVE S(_)
                   S(i) == IF i = 0 THEN 0 ELSE Len(chs[i]) + S(i - 1)
               IN S(Len(chs))

Concat(chs) == LET RECURSIVE C(_)
                   C(i) == IF i = 0 THEN <<>> ELSE C(i - 1) \o chs[i]
               IN C(Len(chs))

(* ------------------------- lua_config_add_map ------------------------- *)
\* The constructor: the callback state lives in cfg_pool, ref is a fresh
\* registry reference when a function was passed and -1 otherwise.  The
\* struct rspamd_lua_map comes from rspamd_mempool_alloc, which does not
\* clear it, and flags is never assigned.
lua_config_add_map(withCb) ==
    [o \in ObjIds |->
        IF o = PoolObj
        THEN [Unalloc EXCEPT !.st = "live",
                             !.ref = IF withCb THEN 1 ELSE NoRef,
                             !.lua_map = 1]
        ELSE Unalloc]

MapInit ==
    /\ \E withCb \in BOOLEAN :
          /\ objs = lua_config_add_map(withCb)
          /\ nextRef = IF withCb THEN 2 ELSE 1
    /\ slot = PoolObj
    /\ prev_data = NULL
    /\ cur_data = NULL
    /\ pc = "idle"
    /\ cyc = 0
    /\ is_signed \in BOOLEAN
    /\ trusted_pubkey = NULL
    /\ delivered = <<>>
    /\ fin = NoFin
    /\ lastOp = NoOp
    /\ verifyLog = {}

(* ------------------ the map registry (collaborator) ------------------- *)
\* A cycle starts with the slot's content as prev_data and no cur_data.
BeginCycle ==
    /\ pc = "idle"
    /\ cyc < MaxCycles
    /\ pc' = "cycle"
    /\ cyc' = cyc + 1
    /\ prev_data' = slot
    /\ cur_data' = NULL
    /\ delivered' = <<>>
    /\ fin' = [NoFin EXCEPT !.prevRaised = fin.logged]
    /\ verifyLog' = {}
    /\ lastOp' = NoOp
    /\ UNCHANGED <<objs, slot, nextRef, is_signed, trusted_pubkey>>
    /\ UNCHANGED exceptMap

(* --------------------------- memory helpers --------------------------- *)
\* g_string_free + g_slice_free1 of one callback state (lua_map_fin).
Release(heap, o) ==
    [heap EXCEPT ![o] = [Unalloc EXCEPT !.st = "freed",
                                        !.handed = heap[o].handed,
                                        !.freedAt = cyc,
                                        !.frees = heap[o].frees + 1]]

\* g_slice_alloc0 followed by the copy of L, ref and lua_map from old.
CopyState(old) ==
    [Unalloc EXCEPT !.st = "live", !.ref = old.ref, !.lua_map = old.lua_map]

\* AppendChunk as it would be if every chunk started the buffer anew.
AppendChunk_Overwrite(cb, chunk) ==
    [cb EXCEPT !.hasData = TRUE, !.data = chunk]

\* g_string_new_len on the first chunk, g_string_append_len afterwards.
AppendChunk(cb, chunk) ==
    [cb EXCEPT !.hasData = TRUE,
               !.data = IF cb.hasData THEN cb.data \o chunk ELSE chunk]

(* ---------------------------- lua_map_read ---------------------------- *)
\* One chunk handed to the read callback.  The first chunk of a cycle
\* allocates cur_data and reads L, ref and lua_map through prev_data; with
\* prev_data NULL that read is a NULL dereference, which ends the process.
lua_map_read(chunk) ==
    /\ pc = "cycle"
    /\ Len(delivered) < MaxChunks
    /\ SumLen(delivered) + Len(chunk) <= MaxBuf
    /\ IF cur_data = NULL /\ prev_data = NULL
       THEN /\ pc' = "crashed"
            /\ UNCHANGED <<objs, cur_data, delivered, fin>>
       ELSE LET cb == IF cur_data = NULL THEN cyc + 1 ELSE cur_data
                heap1 == IF cur_data = NULL
                         THEN [objs EXCEPT ![cb] = CopyState(objs[prev_data])]
                         ELSE objs
            IN /\ objs' = [heap1 EXCEPT ![cb] = AppendChunk(heap1[cb], chunk)]
               /\ cur_data' = cb
               /\ delivered' = Append(delivered, chunk)
               /\ fin' = IF cur_data = NULL
                         THEN [fin EXCEPT !.hadCb = (objs[prev_data].ref # NoRef)]
                         ELSE fin
               /\ UNCHANGED pc
    /\ UNCHANGED <<slot, prev_data, cyc, nextRef, is_signed, trusted_pubkey,
                   lastOp, verifyLog>>
    /\ UNCHANGED exceptMap

(* ------------------------ lua_map_set_callback ------------------------ *)
\* The write map->data.cbdata->ref = luaL_ref (...).  The target is whatever
\* the slot points to; a released target makes it a write to freed memory,
\* which no live state receives.
SetCallbackOn(heap, target, ref) ==
    IF heap[target].st = "live"
    THEN [heap EXCEPT ![target].ref = ref]
    ELSE heap

\* Result of lua_map_set_callback as <<heap, nextRef, lastOp>>.
SetCallbackResult(heap, isFunc) ==
    IF slot = NULL
    THEN <<heap, nextRef,
           [op |-> "set_callback", res |-> "invalid map", target |-> NULL,
            st |-> "none"]>>
    ELSE IF ~isFunc
    THEN <<heap, nextRef,
           [op |-> "set_callback", res |-> "invalid callback", target |-> NULL,
            st |-> "none"]>>
    ELSE <<SetCallbackOn(heap, slot, nextRef), nextRef + 1,
           [op |-> "set_callback", res |-> "ok", target |-> slot,
            st |-> heap[slot].st]>>

lua_map_set_callback(isFunc) ==
    /\ pc \in {"idle", "cycle"}
    /\ nextRef <= MaxRefs
    /\ LET r == SetCallbackResult(objs, isFunc)
       IN /\ objs' = r[1]
          /\ nextRef' = r[2]
          /\ lastOp' = r[3]
    /\ UNCHANGED <<slot, prev_data, cur_data, pc, cyc, is_signed,
                   trusted_pubkey, delivered, fin, verifyLog>>
    /\ UNCHANGED exceptMap

(* --------------------------- lua_map_get_key -------------------------- *)
\* On a callback map the type is neither RADIX nor SET, so the key-value
\* branch runs g_hash_table_lookup on the slot's content when the key
\* converts to a string.
GetKeyResult(heap, hasKey) ==
    IF ~hasKey
    THEN [op |-> "get_key", res |-> "false", target |-> NULL, st |-> "none"]
    ELSE IF slot = NULL
    THEN [op |-> "get_key", res |-> "false", target |-> NULL, st |-> "none"]
    ELSE [op |-> "get_key", res |-> "hash_lookup", target |-> slot,
          st |-> heap[slot].st]

lua_map_get_key(hasKey) ==
    /\ pc \in {"idle", "cycle"}
    /\ lastOp' = GetKeyResult(objs, hasKey)
    /\ UNCHANGED <<objs, slot, prev_data, cur_data, pc, cyc, nextRef,
                   is_signed, trusted_pubkey, delivered, fin, verifyLog>>
    /\ UNCHANGED exceptMap

(* ------------------------ lua_map_set_sign_key ------------------------ *)
\* Key strings the Lua side may pass, and rspamd_pubkey_from_base32 on them:
\* a key handle for a well-formed string, NULL otherwise.
KeyStrings == {"kA", "zz"}

rspamd_pubkey_from_base32(pk_str) ==
    IF pk_str = "kA" THEN 1 ELSE IF pk_str = "kB" THEN 2 ELSE NULL

\* A map made by lua_config_add_map has map->map set; its flags word was
\* never written (see lua_config_add_map), so the EMBEDDED test reads an
\* indeterminate value: embedded is what this read of it yields.  The call
\* does not go through the backend slot and leaves no record in lastOp; an
\* error it raises changes nothing.
lua_map_set_sign_key(pk_str, embedded) ==
    /\ pc \in {"idle", "cycle"}
    /\ LET pk == rspamd_pubkey_from_base32(pk_str)
       IN IF embedded \/ pk = NULL
          THEN UNCHANGED trusted_pubkey
          ELSE trusted_pubkey' = pk
    /\ UNCHANGED <<objs, slot, prev_data, cur_data, pc, cyc, nextRef,
                   is_signed, delivered, fin, lastOp, verifyLog>>
    /\ UNCHANGED exceptMap

(* ---------------------------- lua_map_fin ----------------------------- *)
\* What the Lua handler does while lua_pcall runs it: it holds the map
\* handle, so it may call set_callback or get_key on it, or raise an error.
\* Result as <<heap, nextRef, lastOp>>.
HandlerRun(heap, body) ==
    IF body = "set_callback" THEN SetCallbackResult(heap, TRUE)
    ELSE IF body = "get_key" THEN <<heap, nextRef, GetKeyResult(heap, TRUE)>>
    ELSE <<heap, nextRef, lastOp>>

\* lua_pcall (L, nargs, nresults, 0) on a stack of depth top: the function
\* and its arguments are popped; a call that raises leaves the error message
\* and returns a nonzero status, one that returns leaves nresults values.
lua_pcall(top, nargs, nresults, raises) ==
    [status |-> IF raises THEN 2 ELSE 0,
     top |-> (top - (nargs + 1)) + (IF raises THEN 1 ELSE nresults)]

\* CallHandler as it would be if the error message were left on the stack.
CallHandler_NoPop(top, body) ==
    LET r == lua_pcall(top + 3, 2, 0, body = "error")
    IN [logged |-> r.status # 0, top |-> r.top]

\* The call sequence of lua_map_fin: lua_rawgeti, lua_pushlstring and
\* lua_newuserdata push one value each, rspamd_lua_setclass none; a failed
\* lua_pcall is logged and its message popped.
CallHandler(top, body) ==
    LET r == lua_pcall(top + 3, 2, 0, body = "error")
    IN [logged |-> r.status # 0,
        top |-> IF r.status # 0 THEN r.top - 1 ELSE r.top]

\* Whether lua_map_fin calls the handler for the state cb.
ShouldCall(cb) == cb.ref # NoRef /\ cb.hasData /\ Len(cb.data) # 0

\* The store the registry makes after the fin callback returned.
StoreSlot(cur) == cur

lua_map_fin(body) ==
    /\ pc = "cycle"
    /\ body = "set_callback" => nextRef <= MaxRefs
    /\ LET old == prev_data
           heap1 == IF old # NULL THEN Release(objs, old) ELSE objs
           base == [fin EXCEPT !.done = TRUE, !.regAtFin = LastReg,
                               !.slotBefore = slot, !.freed = old,
                               !.gate = (is_signed /\ trusted_pubkey # NULL)]
       IN IF cur_data = NULL
          THEN /\ body = "none"
               /\ objs' = heap1
               /\ fin' = [base EXCEPT !.nodata = TRUE]
               /\ UNCHANGED <<nextRef, lastOp>>
          ELSE IF ~ShouldCall(heap1[cur_data])
          THEN /\ body = "none"
               /\ objs' = heap1
               /\ fin' = [base EXCEPT !.nocb = (heap1[cur_data].ref = NoRef)]
               /\ UNCHANGED <<nextRef, lastOp>>
          ELSE LET cb == heap1[cur_data]
                   heap2 == [heap1 EXCEPT ![cur_data].handed = cyc]
                   r == HandlerRun(heap2, body)
                   c == CallHandler(fin.top, body)
               IN /\ objs' = r[1]
                  /\ nextRef' = r[2]
                  /\ lastOp' = r[3]
                  /\ fin' = [base EXCEPT
                               !.calls = <<[ref |-> cb.ref, buf |-> cb.data]>>,
                               !.logged = c.logged,
                               !.top = c.top,
                               !.inHandler = body]
    /\ slot' = StoreSlot(cur_data)
    /\ prev_data' = NULL
    /\ cur_data' = NULL
    /\ pc' = "idle"
    /\ UNCHANGED <<cyc, is_signed, trusted_pubkey, delivered, verifyLog>>
    /\ UNCHANGED exceptMap

Next ==
    \/ BeginCycle
    \/ \E chunk \in Chunks : lua_map_read(chunk)
    \/ \E body \in HandlerBodies : lua_map_fin(body)
    \/ \E isFunc \in BOOLEAN : lua_map_set_callback(isFunc)
    \/ \E hasKey \in BOOLEAN : lua_map_get_key(hasKey)
    \/ \E pk_str \in KeyStrings, embedded \in BOOLEAN :
          lua_map_set_sign_key(pk_str, embedded)


(* ====================== lua_rsa.c: sign and verify ===================== *)
ByteBits == 2
MaxLen == 3

Pow2(k) == LET RECURSIVE P(_)
               P(i) == IF i = 0 THEN 1 ELSE 2 * P(i - 1)
           IN P(k)

Bytes == 0 .. (Pow2(ByteBits) - 1)

Strings == UNION {[1 .. l -> Bytes] : l \in 0 .. MaxLen}

\* Two RSA key pairs (modulus n, public exponent e, private exponent d).
KeyPairs == <<[n |-> 16637, e |-> 17, d |-> 14453],
              [n |-> 16837, e |-> 17, d |-> 15601]>>

\* x with bit i inverted.
BitFlip(x, i) == IF (x \div Pow2(i)) % 2 = 1 THEN x - Pow2(i) ELSE x + Pow2(i)

\* b^x mod n by square and multiply.
ModExp(b, x, n) ==
    LET RECURSIVE M(_, _)
        M(bb, xx) == IF xx = 0 THEN 1
                     ELSE LET h == M((bb * bb) % n, xx \div 2)
                          IN IF xx % 2 = 1 THEN (bb * h) % n ELSE h
    IN M(b % n, x)

\* The bytes a C string function sees of a Lua string: those before the
\* first zero byte (luaL_checkstring drops the length, -1 means strlen).
CStr(str) ==
    LET RECURSIVE Z(_)
        Z(i) == IF i > Len(str) \/ str[i] = 0 THEN i - 1 ELSE Z(i + 1)
    IN SubSeq(str, 1, Z(1))

\* g_compute_checksum_for_string (G_CHECKSUM_SHA256, ...): the digest of a
\* byte string, here collision free on the strings of the model.
Checksum(str) ==
    LET base == Pow2(ByteBits) + 1
        RECURSIVE H(_)
        H(i) == IF i = 0 THEN 0 ELSE (str[i] + 1) + base * H(i - 1)
    IN H(Len(str))

\* The DigestInfo that RSA_sign / RSA_verify build from the digest
\* identifier and the digest bytes: one to one in both, and never 0 or 1,
\* which the padding of the real encoding excludes.
EncodeDigestInfo(nid, m) == 2 * (m + 1) + (IF nid = "NID_sha1" THEN 0 ELSE 1)

\* RSA_size in bits: the signature buffer holds whole bytes.
SigBits(key) == LET RECURSIVE B(_)
                    B(k) == IF Pow2(8 * k) > key.n THEN 8 * k ELSE B(k + 1)
                IN B(1)

RSA_sign(nid, m, key) == ModExp(EncodeDigestInfo(nid, m), key.d, key.n)

RSA_verify(nid, m, sigbuf, key) ==
    /\ sigbuf < key.n
    /\ ModExp(sigbuf, key.e, key.n) = EncodeDigestInfo(nid, m)

\* lua_rsa_sign_memory: digest of the C string, signed under NID_sha1.
SignDigest(str) == Checksum(CStr(str))

SignMemory(key, str) == RSA_sign("NID_sha1", SignDigest(str), key)

\* VerifyDigest as it would be if the verifier hashed the string with its
\* Lua length while the signer stops at the first zero byte.
VerifyDigest_WholeString(str) == Checksum(str)

\* lua_rsa_verify_memory: digest of the C string, checked under NID_sha1.
VerifyDigest(str) == Checksum(CStr(str))

VerifyMemory(key, sigbuf, str) ==
    RSA_verify("NID_sha1", VerifyDigest(str), sigbuf, key)

NoTamper == [kind |-> "none", pos |-> 0, bit |-> 0]

\* str with bit `bit` of its byte `pos` inverted.
FlipDataBit(str, pos, bit) == [str EXCEPT ![pos] = BitFlip(str[pos], bit)]

RsaIdle ==
    /\ rpc = "idle"
    /\ data = <<>>
    /\ privIdx = 1
    /\ sig = 0
    /\ tamper = NoTamper
    /\ vdata = <<>>
    /\ vsig = 0
    /\ pubIdx = 1
    /\ vres = "none"

RsaInit ==
    /\ rpc = "start"
    /\ data \in Strings
    /\ privIdx \in 1 .. Len(KeyPairs)
    /\ sig = 0
    /\ tamper = NoTamper
    /\ vdata = <<>>
    /\ vsig = 0
    /\ pubIdx = 1
    /\ vres = "none"

lua_rsa_sign_memory ==
    /\ rpc = "start"
    /\ sig' = SignMemory(KeyPairs[privIdx], data)
    /\ rpc' = "signed"
    /\ UNCHANGED <<data, privIdx, tamper, vdata, vsig, pubIdx, vres>>
    /\ UNCHANGED exceptRsa

\* The verifier is handed the signer's inputs unchanged.
PassUnchanged ==
    /\ rpc = "signed"
    /\ tamper' = NoTamper
    /\ vdata' = data
    /\ vsig' = sig
    /\ pubIdx' = privIdx
    /\ rpc' = "ready"
    /\ UNCHANGED <<data, privIdx, sig, vres>>
    /\ UNCHANGED exceptRsa

\* The verifier is handed the data with one bit inverted.
TamperData(pos, bit) ==
    /\ rpc = "signed"
    /\ pos \in 1 .. Len(data)
    /\ tamper' = [kind |-> "data", pos |-> pos, bit |-> bit]
    /\ vdata' = FlipDataBit(data, pos, bit)
    /\ vsig' = sig
    /\ pubIdx' = privIdx
    /\ rpc' = "ready"
    /\ UNCHANGED <<data, privIdx, sig, vres>>
    /\ UNCHANGED exceptRsa

\* The verifier is handed the signature with one bit inverted.
TamperSig(bit) ==
    /\ rpc = "signed"
    /\ bit \in 0 .. (SigBits(KeyPairs[privIdx]) - 1)
    /\ tamper' = [kind |-> "sig", pos |-> 0, bit |-> bit]
    /\ vdata' = data
    /\ vsig' = BitFlip(sig, bit)
    /\ pubIdx' = privIdx
    /\ rpc' = "ready"
    /\ UNCHANGED <<data, privIdx, sig, vres>>
    /\ UNCHANGED exceptRsa

\* The verifier uses the public key of another pair.
OtherKey(k) ==
    /\ rpc = "signed"
    /\ k # privIdx
    /\ tamper' = [kind |-> "key", pos |-> 0, bit |-> 0]
    /\ vdata' = data
    /\ vsig' = sig
    /\ pubIdx' = k
    /\ rpc' = "ready"
    /\ UNCHANGED <<data, privIdx, sig, vres>>
    /\ UNCHANGED exceptRsa

lua_rsa_verify_memory ==
    /\ rpc = "ready"
    /\ vres' = IF VerifyMemory(KeyPairs[pubIdx], vsig, vdata)
               THEN "true" ELSE "false"
    /\ rpc' = "verified"
    /\ UNCHANGED <<data, privIdx, sig, tamper, vdata, vsig, pubIdx>>
    /\ UNCHANGED exceptRsa

\* The map at rest, for the specification of the RSA functions.
MapIdle ==
    /\ objs = lua_config_add_map(FALSE)
    /\ nextRef = 1
    /\ slot = PoolObj
    /\ prev_data = NULL
    /\ cur_data = NULL
    /\ pc = "idle"
    /\ cyc = 0
    /\ is_signed = FALSE
    /\ trusted_pubkey = NULL
    /\ delivered = <<>>
    /\ fin = NoFin
    /\ lastOp = NoOp
    /\ verifyLog = {}

RsaNext ==
    \/ lua_rsa_sign_memory
    \/ PassUnchanged
    \/ \E pos \in 1 .. MaxLen, bit \in 0 .. (ByteBits - 1) : TamperData(pos, bit)
    \/ \E bit \in 0 .. 31 : TamperSig(bit)
    \/ \E k \in 1 .. Len(KeyPairs) : OtherKey(k)
    \/ lua_rsa_verify_memory

(* ================ lua_rsa.c: sign_file and verify_file ================= *)
\* What open, fstat and mmap do on the data file during one call: all
\* succeed, or the named one fails.
FileEnvs == {"ok", "open", "fstat", "mmap"}

\* mmap (NULL, st.st_size, PROT_READ, MAP_SHARED, fd, 0) succeeds: not when
\* the system refuses it, and never for a length of zero.
mmap(env, size) == env # "mmap" /\ size # 0

\* lua_rsa_sign_file hashes st.st_size bytes of the mapping.
SignFileDigest(content) == Checksum(content)

\* lua_rsa_verify_file hashes st.st_size bytes of the mapping.
VerifyFileDigest(content) == Checksum(content)

\* lua_rsa_sign_file on a file holding content, as [ok, val, opens, closes]:
\* ok and the signature val, or nil; the descriptors opened and closed.
SignFile(key, content, env) ==
    IF env = "open"
    THEN [ok |-> FALSE, val |-> 0, opens |-> 0, closes |-> 0]
    ELSE IF env = "fstat" \/ ~mmap(env, Len(content))
    THEN [ok |-> FALSE, val |-> 0, opens |-> 1, closes |-> 1]
    ELSE [ok |-> TRUE,
          val |-> RSA_sign("NID_sha1", SignFileDigest(content), key),
          opens |-> 1, closes |-> 1]

\* VerifyFile as it would be if a file that cannot be opened counted as a
\* signature that does not match.
VerifyFile_FalseOnOpenError(key, sigbuf, content, env) ==
    IF env = "open"
    THEN [res |-> "false", opens |-> 0, closes |-> 0]
    ELSE IF env = "fstat" \/ ~mmap(env, Len(content))
    THEN [res |-> "nil", opens |-> 1, closes |-> 1]
    ELSE [res |-> IF RSA_verify("NID_sha1", VerifyFileDigest(content),
                                sigbuf, key)
                  THEN "true" ELSE "false",
          opens |-> 1, closes |-> 1]

\* lua_rsa_verify_file on a file holding content, as [res, opens, closes].
VerifyFile(key, sigbuf, content, env) ==
    IF env = "open"
    THEN [res |-> "nil", opens |-> 0, closes |-> 0]
    ELSE IF env = "fstat" \/ ~mmap(env, Len(content))
    THEN [res |-> "nil", opens |-> 1, closes |-> 1]
    ELSE [res |-> IF RSA_verify("NID_sha1", VerifyFileDigest(content),
                                sigbuf, key)
                  THEN "true" ELSE "false",
          opens |-> 1, closes |-> 1]

NoSig == [ok |-> FALSE, val |-> 0, by |-> "none"]

NoIo == [op |-> "none", env |-> "ok", opens |-> 0, closes |-> 0, key |-> 1]

FileIdle ==
    /\ fpc = "idle"
    /\ fdata = <<>>
    /\ fsig = NoSig
    /\ fres = "none"
    /\ fio = NoIo

\* A script holds the content d as a Lua string and in a data file.
FileInit ==
    /\ fpc = "start"
    /\ fdata \in Strings
    /\ fsig = NoSig
    /\ fres = "none"
    /\ fio = NoIo

\* rsa.sign_memory (privkey, d)
rsa_sign_memory ==
    /\ fpc = "start"
    /\ fsig' = [ok |-> TRUE, val |-> SignMemory(KeyPairs[1], fdata),
                by |-> "memory"]
    /\ fio' = [NoIo EXCEPT !.op = "sign_memory"]
    /\ fpc' = "signed"
    /\ UNCHANGED <<fdata, fres>>
    /\ UNCHANGED exceptFile

\* rsa.sign_file (privkey, path of the data file)
rsa_sign_file(env) ==
    /\ fpc = "start"
    /\ LET r == SignFile(KeyPairs[1], fdata, env)
       IN /\ fsig' = [ok |-> r.ok, val |-> r.val, by |-> "file"]
          /\ fio' = [op |-> "sign_file", env |-> env, opens |-> r.opens,
                     closes |-> r.closes, key |-> 1]
    /\ fpc' = "signed"
    /\ UNCHANGED <<fdata, fres>>
    /\ UNCHANGED exceptFile

\* rsa.verify_memory (pubkey k, signature, d)
rsa_verify_memory(k) ==
    /\ fpc = "signed"
    /\ fsig.ok
    /\ fres' = IF VerifyMemory(KeyPairs[k], fsig.val, fdata)
               THEN "true" ELSE "false"
    /\ fio' = [NoIo EXCEPT !.op = "verify_memory", !.key = k]
    /\ fpc' = "verified"
    /\ UNCHANGED <<fdata, fsig>>
    /\ UNCHANGED exceptFile

\* rsa.verify_file (pubkey k, signature, path of the data file)
rsa_verify_file(k, env) ==
    /\ fpc = "signed"
    /\ fsig.ok
    /\ LET r == VerifyFile(KeyPairs[k], fsig.val, fdata, env)
       IN /\ fres' = r.res
          /\ fio' = [op |-> "verify_file", env |-> env, opens |-> r.opens,
                     closes |-> r.closes, key |-> k]
    /\ fpc' = "verified"
    /\ UNCHANGED <<fdata, fsig>>
    /\ UNCHANGED exceptFile

FileNext ==
    \/ rsa_sign_memory
    \/ \E env \in FileEnvs : rsa_sign_file(env)
    \/ \E k \in 1 .. Len(KeyPairs) : rsa_verify_memory(k)
    \/ \E k \in 1 .. Len(KeyPairs), env \in FileEnvs : rsa_verify_file(k, env)

(* ================== lua_rsa.c: rsa_signature:save ====================== *)
MaxSaves == 2
MaxSigLen == 2
MaxEintr == 1

\* Signatures to save, and what the file at the path may hold beforehand
\* (bytes no signature of the model contains).
SigStrings == UNION {[1 .. l -> {1, 2}] : l \in 0 .. MaxSigLen}

OldContents == UNION {[1 .. l -> {3}] : l \in 0 .. (MaxSigLen + 1)}

NoFile == [exists |-> FALSE, bytes |-> <<>>]

IsPrefix(p, str) == Len(p) <= Len(str) /\ p = SubSeq(str, 1, Len(p))

\* SaveFlags as it would be if a forced save did not truncate.
SaveFlags_NoTrunc(forced) ==
    {"O_WRONLY", "O_CREAT"} \cup (IF forced THEN {} ELSE {"O_EXCL"})

\* flags = O_WRONLY | O_CREAT, then |= O_TRUNC if forced, else |= O_EXCL.
SaveFlags(forced) ==
    {"O_WRONLY", "O_CREAT"} \cup (IF forced THEN {"O_TRUNC"} ELSE {"O_EXCL"})

\* open (filename, flags, 00644) as [fd, file]: fd is -1 when the system
\* refuses (sysOk false) and when O_EXCL meets an existing file; otherwise
\* the file exists afterwards, empty if it was created or truncated.
open(file, flags, sysOk) ==
    IF ~sysOk \/ ("O_EXCL" \in flags /\ file.exists)
    THEN [fd |-> -1, file |-> file]
    ELSE [fd |-> 3,
          file |-> [exists |-> TRUE,
                    bytes |-> IF "O_TRUNC" \in flags \/ ~file.exists
                              THEN <<>> ELSE file.bytes]]

\* n bytes of str written at offset 0 of a file holding content.
WriteAt0(content, str, n) ==
    SubSeq(str, 1, n) \o SubSeq(content, n + 1, Len(content))

\* while (write (fd, sig->str, sig->len) == -1): eintrs calls return -1
\* with errno EINTR and are repeated, then one call returns ret, which is
\* -1 with another errno or the number of bytes it transferred.  As
\* [res, bytes, calls].
WriteLoop(content, str, eintrs, ret) ==
    LET RECURSIVE W(_)
        W(k) == IF k > 0 THEN W(k - 1)
                ELSE IF ret = -1 THEN [res |-> FALSE, bytes |-> content]
                ELSE [res |-> TRUE, bytes |-> WriteAt0(content, str, ret)]
        r == W(eintrs)
    IN [res |-> r.res, bytes |-> r.bytes, calls |-> eintrs + 1]

NoSave == [done |-> FALSE, forced |-> FALSE, existed |-> FALSE,
           before |-> NoFile, sysOk |-> TRUE, eintrs |-> 0, ret |-> 0,
           res |-> FALSE]

\* lua_rsa_signature_create: rspamd_fstring_new_init copies the dlen bytes
\* luaL_checklstring returned, whatever dlen is.
lua_rsa_signature_create(str) == str

\* lua_rsa_signature_load on a path holding file, as [res, bytes, leaked]:
\* nil when open (filename, O_RDONLY), fstat or mmap of st.st_size bytes
\* fails, else a signature made of the mapped bytes.  leaked: the g_malloc
\* block stored in sig after open, which is overwritten or dropped.
SignatureLoad(file, env) ==
    IF ~file.exists \/ env = "open"
    THEN [res |-> "nil", bytes |-> <<>>, leaked |-> 0]
    ELSE IF env = "fstat" \/ ~mmap(env, Len(file.bytes))
    THEN [res |-> "nil", bytes |-> <<>>, leaked |-> 1]
    ELSE [res |-> "signature", bytes |-> file.bytes, leaked |-> 1]

\* No load call made since the last save.  env: what the system did;
\* res / bytes: the value returned.
NoLoad == [done |-> FALSE, env |-> "ok", res |-> "none", bytes |-> <<>>,
           leaked |-> 0]

SaveIdle ==
    /\ sfile = NoFile
    /\ ssig = <<>>
    /\ nsaves = 0
    /\ lastSave = NoSave
    /\ lastLoad = NoLoad

\* A signature object and a path that is fresh or holds earlier content.
SaveInit ==
    /\ \E str \in SigStrings : ssig = lua_rsa_signature_create(str)
    /\ sfile \in {NoFile} \cup {[exists |-> TRUE, bytes |-> c] : c \in OldContents}
    /\ nsaves = 0
    /\ lastSave = NoSave
    /\ lastLoad = NoLoad

lua_rsa_signature_save(forced, sysOk, eintrs, ret) ==
    /\ nsaves < MaxSaves
    /\ ret \in -1 .. Len(ssig)
    /\ LET o == open(sfile, SaveFlags(forced), sysOk)
           w == WriteLoop(o.file.bytes, ssig, eintrs, ret)
           base == [done |-> TRUE, forced |-> forced, existed |-> sfile.exists,
                    before |-> sfile, sysOk |-> sysOk, eintrs |-> 0,
                    ret |-> 0, res |-> FALSE]
       IN IF o.fd = -1
          THEN /\ eintrs = 0
               /\ ret = 0
               /\ sfile' = o.file
               /\ lastSave' = base
          ELSE /\ sfile' = [o.file EXCEPT !.bytes = w.bytes]
               /\ lastSave' = [base EXCEPT !.eintrs = eintrs, !.ret = ret,
                                           !.res = w.res]
    /\ nsaves' = nsaves + 1
    /\ lastLoad' = NoLoad
    /\ UNCHANGED ssig
    /\ UNCHANGED exceptSave

\* Signature.load of the path.  It writes nothing but its record, so one
\* call is made after each save.
lua_rsa_signature_load(env) ==
    /\ ~lastLoad.done
    /\ LET r == SignatureLoad(sfile, env)
       IN lastLoad' = [done |-> TRUE, env |-> env, res |-> r.res,
                       bytes |-> r.bytes, leaked |-> r.leaked]
    /\ UNCHANGED <<sfile, ssig, nsaves, lastSave>>
    /\ UNCHANGED exceptSave

SaveNext ==
    \/ \E forced \in BOOLEAN, sysOk \in BOOLEAN, eintrs \in 0 .. MaxEintr,
          ret \in -1 .. MaxSigLen :
           lua_rsa_signature_save(forced, sysOk, eintrs, ret)
    \/ \E env \in FileEnvs : lua_rsa_signature_load(env)

(* ================= lua_map.c: the methods of a handle ================== *)
MaxKeySets == 2

\* The sources a map can be registered for: the protocol the registry
\* derives from the map line, and the uri it keeps.
Sources == {[protocol |-> "MAP_PROTO_FILE", uri |-> "/etc/m.map"],
            [protocol |-> "MAP_PROTO_HTTP", uri |-> "http://h/m.map"]}

\* lua_config_add_radix_map, lua_config_add_hash_map, lua_config_add_kv_map:
\* the struct comes zeroed from rspamd_mempool_alloc0, type is set, and
\* map->map is what rspamd_map_add returned.
AddTypedMap(ctor, type, src, signed) ==
    [ctor |-> ctor, type |-> type, embedded |-> FALSE, map |-> 1,
     protocol |-> src.protocol, uri |-> src.uri, is_signed |-> signed]

\* lua_config_radix_from_config: zeroed struct, no map->map, the flag
\* RSPAMD_LUA_MAP_FLAG_EMBEDDED set.
RadixFromConfig ==
    [ctor |-> "radix_from_config", type |-> "RSPAMD_LUA_MAP_RADIX",
     embedded |-> TRUE, map |-> NULL, protocol |-> "none", uri |-> "none",
     is_signed |-> FALSE]

\* lua_config_add_map: the struct comes from rspamd_mempool_alloc, which
\* does not clear it, and flags is never assigned: the EMBEDDED bit is
\* whatever the memory held (garbage).
AddCallbackMap(src, signed, garbage) ==
    [ctor |-> "add_map", type |-> "RSPAMD_LUA_MAP_CALLBACK",
     embedded |-> garbage, map |-> 1, protocol |-> src.protocol,
     uri |-> src.uri, is_signed |-> signed]

TypedCtors == {<<"add_radix_map", "RSPAMD_LUA_MAP_RADIX">>,
               <<"add_hash_map", "RSPAMD_LUA_MAP_SET">>,
               <<"add_kv_map", "RSPAMD_LUA_MAP_HASH">>}

Handles ==
    {AddTypedMap(c[1], c[2], src, sg) :
        c \in TypedCtors, src \in Sources, sg \in BOOLEAN}
    \cup {RadixFromConfig}
    \cup {AddCallbackMap(src, sg, g) :
             src \in Sources, sg \in BOOLEAN, g \in BOOLEAN}

\* Strings a script passes to set_sign_key: two keys in base32 and one
\* string that is no key.
PkStrings == {"kA", "kB", "zz"}

\* rspamd_pubkey_print (pk, RSPAMD_KEYPAIR_PUBKEY|RSPAMD_KEYPAIR_BASE32).
rspamd_pubkey_print(pk) == IF pk = 1 THEN "kA" ELSE "kB"

\* rspamd_pubkey_unref of the key at index k (no key: nothing).
rspamd_pubkey_unref(ks, k) ==
    IF k = NULL THEN ks ELSE [ks EXCEPT ![k].refs = ks[k].refs - 1]

\* The test both lua_map_get_proto and lua_map_get_uri make first.
IsEmbedded(hh) == hh.embedded \/ hh.map = NULL

\* lua_map_is_signed
IsSigned(hh) == IF hh.map # NULL /\ hh.is_signed THEN "true" ELSE "false"

\* lua_map_get_proto: ret starts as "undefined"; the switch has a case for
\* MAP_PROTO_FILE and one for MAP_PROTO_HTTP.
GetProto(hh) ==
    IF IsEmbedded(hh) THEN "embedded"
    ELSE IF hh.protocol = "MAP_PROTO_FILE" THEN "file"
    ELSE IF hh.protocol = "MAP_PROTO_HTTP" THEN "http"
    ELSE "undefined"

\* lua_map_get_uri
GetUri(hh) == IF IsEmbedded(hh) THEN "embedded" ELSE hh.uri

\* lua_map_get_sign_key: nil for the EMBEDDED flag and for no key.
GetSignKey(hh, ks, cur) ==
    IF hh.embedded THEN "nil"
    ELSE IF hh.map # NULL /\ cur # NULL THEN rspamd_pubkey_print(ks[cur].val)
    ELSE "nil"

\* SetSignKey as it would be if the string were parsed before the handle
\* is tested for being embedded.
SetSignKey_ParseFirst(hh, ks, cur, hasStr, pk_str) ==
    LET pk == rspamd_pubkey_from_base32(pk_str)
    IN IF ~hasStr
       THEN [res |-> "invalid arguments", parsed |-> FALSE, keys |-> ks,
             hkey |-> cur]
       ELSE IF pk = NULL
       THEN [res |-> "invalid pubkey string", parsed |-> TRUE, keys |-> ks,
             hkey |-> cur]
       ELSE IF hh.embedded \/ hh.map = NULL
       THEN [res |-> "cannot set key for embedded maps", parsed |-> TRUE,
             keys |-> ks, hkey |-> cur]
       ELSE [res |-> "ok", parsed |-> TRUE,
             keys |-> Append(rspamd_pubkey_unref(ks, cur),
                             [val |-> pk, refs |-> 1]),
             hkey |-> Len(ks) + 1]

\* lua_map_set_sign_key with the second argument a string (hasStr) or not,
\* as [res, parsed, keys, hkey]: res is "ok" or the error raised, parsed
\* tells whether rspamd_pubkey_from_base32 was called.
SetSignKey(hh, ks, cur, hasStr, pk_str) ==
    LET pk == rspamd_pubkey_from_base32(pk_str)
    IN IF ~hasStr
       THEN [res |-> "invalid arguments", parsed |-> FALSE, keys |-> ks,
             hkey |-> cur]
       ELSE IF hh.embedded \/ hh.map = NULL
       THEN [res |-> "cannot set key for embedded maps", parsed |-> FALSE,
             keys |-> ks, hkey |-> cur]
       ELSE IF pk = NULL
       THEN [res |-> "invalid pubkey string", parsed |-> TRUE, keys |-> ks,
             hkey |-> cur]
       ELSE [res |-> "ok", parsed |-> TRUE,
             keys |-> Append(rspamd_pubkey_unref(ks, cur),
                             [val |-> pk, refs |-> 1]),
             hkey |-> Len(ks) + 1]

NoBackend == [radix |-> {}, hash |-> <<>>]

NoInput == [form |-> "nil", num |-> 0, addr |-> <<>>, str |-> ""]

\* No get_key call made yet.  input: its argument; res: the Lua value it
\* returned, as [type, val]; lookups: the radix lookups it made; ub: what
\* the lookup in a table that is none did; member: the member of the data
\* union it read.
NoGet == [done |-> FALSE, input |-> NoInput,
          res |-> [type |-> "none", val |-> ""], lookups |-> 0,
          ub |-> "false", member |-> "none"]

\* No method called yet.  op: the method; hasStr / arg: its argument;
\* res: what it returned or raised; parsed: it called the key parser;
\* keyBefore: the trusted key when it was called.
NoCall == [op |-> "none", hasStr |-> FALSE, arg |-> "", res |-> "none",
           parsed |-> FALSE, keyBefore |-> NULL]

HdlIdle ==
    /\ hdl = RadixFromConfig
    /\ backend = NoBackend
    /\ hostLE = TRUE
    /\ keys = <<>>
    /\ hkey = NULL
    /\ lastOkStr = ""
    /\ lastCall = NoCall
    /\ lastGet = NoGet

\* A handle of any variant as its constructor returns it.
HdlInit ==
    /\ hdl \in Handles
    /\ backend = NoBackend
    /\ hostLE = TRUE
    /\ keys = <<>>
    /\ hkey = NULL
    /\ lastOkStr = ""
    /\ lastCall = NoCall
    /\ lastGet = NoGet

map_is_signed ==
    /\ lastCall' = [NoCall EXCEPT !.op = "is_signed", !.res = IsSigned(hdl),
                                  !.keyBefore = hkey]
    /\ UNCHANGED <<hdl, backend, hostLE, keys, hkey, lastOkStr, lastGet>>
    /\ UNCHANGED exceptHdl

map_get_proto ==
    /\ lastCall' = [NoCall EXCEPT !.op = "get_proto", !.res = GetProto(hdl),
                                  !.keyBefore = hkey]
    /\ UNCHANGED <<hdl, backend, hostLE, keys, hkey, lastOkStr, lastGet>>
    /\ UNCHANGED exceptHdl

map_get_uri ==
    /\ lastCall' = [NoCall EXCEPT !.op = "get_uri", !.res = GetUri(hdl),
                                  !.keyBefore = hkey]
    /\ UNCHANGED <<hdl, backend, hostLE, keys, hkey, lastOkStr, lastGet>>
    /\ UNCHANGED exceptHdl

map_get_sign_key ==
    /\ lastCall' = [NoCall EXCEPT !.op = "get_sign_key",
                                  !.res = GetSignKey(hdl, keys, hkey),
                                  !.keyBefore = hkey]
    /\ UNCHANGED <<hdl, backend, hostLE, keys, hkey, lastOkStr, lastGet>>
    /\ UNCHANGED exceptHdl

map_set_sign_key(hasStr, pk_str) ==
    /\ Len(keys) < MaxKeySets
    /\ ~hasStr => pk_str = "zz"
    /\ LET r == SetSignKey(hdl, keys, hkey, hasStr, pk_str)
       IN /\ keys' = r.keys
          /\ hkey' = r.hkey
          /\ lastOkStr' = IF r.res = "ok" THEN pk_str ELSE lastOkStr
          /\ lastCall' = [op |-> "set_sign_key", hasStr |-> hasStr,
                          arg |-> pk_str, res |-> r.res, parsed |-> r.parsed,
                          keyBefore |-> hkey]
    /\ UNCHANGED <<hdl, backend, hostLE, lastGet>>
    /\ UNCHANGED exceptHdl

HdlNext ==
    \/ map_is_signed
    \/ map_get_proto
    \/ map_get_uri
    \/ map_get_sign_key
    \/ \E hasStr \in BOOLEAN, pk_str \in PkStrings :
          map_set_sign_key(hasStr, pk_str)

(* ======================= lua_map.c: map:get_key ======================== *)
OctetBits == 1
RADIX_NO_VALUE == -1

Octets == 0 .. (Pow2(OctetBits) - 1)

\* IPv4 addresses as their four bytes in network order, and the 32-bit
\* unsigned integers, both scaled to octets of OctetBits bits.
Addrs == [1 .. 4 -> Octets]

U32 == 0 .. (Pow2(4 * OctetBits) - 1)

\* The four bytes of v, most significant first.
BigEndian(v) ==
    [i \in 1 .. 4 |-> (v \div Pow2(OctetBits * (4 - i))) % Pow2(OctetBits)]

\* The integer whose bytes, most significant first, are b.
FromBigEndian(b) ==
    LET RECURSIVE F(_)
        F(i) == IF i = 0 THEN 0 ELSE b[i] + Pow2(OctetBits) * F(i - 1)
    IN F(4)

ReverseBytes(b) == [i \in 1 .. 4 |-> b[5 - i]]

\* (guint8 *)&key_num: the bytes of v in the order the host stores them.
HostBytes(v, le) == IF le THEN ReverseBytes(BigEndian(v)) ELSE BigEndian(v)

\* htonl as it would be if it returned its argument on every host.
htonl_Identity(v, le) == v

\* htonl: byte swap on a little-endian host, nothing on a big-endian one.
htonl(v, le) == IF le THEN FromBigEndian(ReverseBytes(BigEndian(v))) ELSE v

\* Tries: sets of network prefixes, each some leading bytes of an address.
PrefixFamily == {<<0, 0, 0, 0>>, <<0, 1>>, <<1>>}

Tries == SUBSET PrefixFamily

\* An entry of the trie covers the address.
RadixCovers(trie, bytes) == \E p \in trie : IsPrefix(p, bytes)

\* radix_find_compressed (radix, key, 4) and radix_find_compressed_addr:
\* the value of the covering entry, or RADIX_NO_VALUE.
radix_find_compressed(trie, bytes) ==
    IF RadixCovers(trie, bytes) THEN 1 ELSE RADIX_NO_VALUE

\* Hash tables: a set keeps a constant value for each member, a key-value
\* map a string.
KeyNames == {"a", "b"}

SetTables == UNION {[K -> {"1"}] : K \in SUBSET KeyNames}

KvTables == UNION {[K -> {"x", "y"}] : K \in SUBSET KeyNames}

\* rspamd_strcase_hash / rspamd_strcase_equal compare without case.
Lower(str) == IF str = "A" THEN "a" ELSE IF str = "B" THEN "b" ELSE str

HasKey(table, key) == \E k \in DOMAIN table : Lower(k) = Lower(key)

\* g_hash_table_lookup as [ptr, str]: ptr is FALSE for NULL.
g_hash_table_lookup(table, key) ==
    IF HasKey(table, key)
    THEN [ptr |-> TRUE,
          str |-> table[CHOOSE k \in DOMAIN table : Lower(k) = Lower(key)]]
    ELSE [ptr |-> FALSE, str |-> ""]

\* What a script passes to get_key: a number, an rspamd{ip} object (addr
\* <<>>: its addr field is NULL), a string (the text of an address, or a
\* key), or nil.
Inputs ==
    {[form |-> "number", num |-> n, addr |-> <<>>, str |-> ""] : n \in U32}
    \cup {[form |-> "userdata", num |-> 0, addr |-> a, str |-> ""] :
             a \in Addrs \cup {<<>>}}
    \cup {[form |-> "string", num |-> 0, addr |-> a, str |-> "ip"] :
             a \in Addrs}
    \cup {[form |-> "string", num |-> 0, addr |-> <<>>, str |-> k] :
             k \in {"a", "A", "b", "c"}}
    \cup {NoInput}

\* lua_tostring (L, 2) as [ptr, str]: the string, the text of a number,
\* NULL for anything else.
lua_tostring(input) ==
    IF input.form = "string" THEN [ptr |-> TRUE, str |-> input.str]
    ELSE IF input.form = "number"
    THEN [ptr |-> TRUE, str |-> ToString(input.num)]
    ELSE [ptr |-> FALSE, str |-> ""]

LuaBoolean(b, n) ==
    [res |-> [type |-> "boolean", val |-> IF b THEN "true" ELSE "false"],
     lookups |-> n]

\* lua_map_get_key, as [res, lookups].  On a callback map the last branch
\* hands map->data.hash, which holds the callback state, to
\* g_hash_table_lookup: ub is what that call does (it crashes, or returns
\* NULL, or returns some pointer).
GetKey(hh, be, le, input, ub) ==
    IF hh.type = "RSPAMD_LUA_MAP_RADIX"
    THEN LET key_num == IF input.form = "number"
                        THEN htonl(input.num, le) ELSE 0
             addr == IF input.form = "userdata" THEN input.addr ELSE <<>>
         IN IF addr # <<>>
            THEN LuaBoolean(radix_find_compressed(be.radix, addr)
                                # RADIX_NO_VALUE, 1)
            ELSE IF key_num # 0
            THEN LuaBoolean(radix_find_compressed(be.radix,
                                HostBytes(key_num, le)) # RADIX_NO_VALUE, 1)
            ELSE LuaBoolean(FALSE, 0)
    ELSE IF hh.type = "RSPAMD_LUA_MAP_SET"
    THEN LET key == lua_tostring(input)
         IN IF key.ptr
            THEN LuaBoolean(g_hash_table_lookup(be.hash, key.str).ptr, 0)
            ELSE LuaBoolean(FALSE, 0)
    ELSE LET key == lua_tostring(input)
             value == IF hh.type = "RSPAMD_LUA_MAP_CALLBACK"
                      THEN [ptr |-> ub = "garbage", str |-> "garbage"]
                      ELSE g_hash_table_lookup(be.hash, key.str)
         IN IF key.ptr /\ ub = "crash"
            THEN [res |-> [type |-> "crash", val |-> ""], lookups |-> 0]
            ELSE IF key.ptr /\ value.ptr
            THEN [res |-> [type |-> "string", val |-> value.str],
                  lookups |-> 0]
            ELSE LuaBoolean(FALSE, 0)

\* The member of the union map->data each constructor assigns.
DataMember(hh) ==
    IF hh.ctor \in {"add_radix_map", "radix_from_config"} THEN "radix"
    ELSE IF hh.ctor \in {"add_hash_map", "add_kv_map"} THEN "hash"
    ELSE "cbdata"

\* The member of map->data that lua_map_get_key reads: data.radix in the
\* RADIX branch, data.hash in the SET branch and in the else branch when
\* the key converts to a string.
MemberRead(hh, input) ==
    IF hh.type = "RSPAMD_LUA_MAP_RADIX" THEN "radix"
    ELSE IF lua_tostring(input).ptr THEN "hash"
    ELSE "none"

\* A handle of each variant with its backend built, on either kind of host.
LookupInit ==
    /\ hostLE \in BOOLEAN
    /\ \E src \in Sources :
          /\ src.protocol = "MAP_PROTO_FILE"
          /\ \/ /\ hdl \in {RadixFromConfig,
                             AddTypedMap("add_radix_map",
                                         "RSPAMD_LUA_MAP_RADIX", src, FALSE)}
                /\ \E t \in Tries : backend = [radix |-> t, hash |-> <<>>]
             \/ /\ hdl = AddTypedMap("add_hash_map", "RSPAMD_LUA_MAP_SET",
                                     src, FALSE)
                /\ \E t \in SetTables : backend = [radix |-> {}, hash |-> t]
             \/ /\ hdl = AddTypedMap("add_kv_map", "RSPAMD_LUA_MAP_HASH",
                                     src, FALSE)
                /\ \E t \in KvTables : backend = [radix |-> {}, hash |-> t]
             \/ /\ hdl = AddCallbackMap(src, FALSE, FALSE)
                /\ backend = NoBackend
    /\ keys = <<>>
    /\ hkey = NULL
    /\ lastOkStr = ""
    /\ lastCall = NoCall
    /\ lastGet = NoGet

\* A lookup writes nothing but its record, so each behaviour makes one.
map_get_key(input, ub) ==
    /\ ~lastGet.done
    /\ ub # "false"
          => hdl.type = "RSPAMD_LUA_MAP_CALLBACK" /\ lua_tostring(input).ptr
    /\ LET r == GetKey(hdl, backend, hostLE, input, ub)
       IN lastGet' = [done |-> TRUE, input |-> input, res |-> r.res,
                      lookups |-> r.lookups, ub |-> ub,
                      member |-> MemberRead(hdl, input)]
    /\ UNCHANGED <<hdl, backend, hostLE, keys, hkey, lastOkStr, lastCall>>
    /\ UNCHANGED exceptHdl

LookupNext ==
    \E input \in Inputs, ub \in {"false", "crash", "garbage"} :
        map_get_key(input, ub)

(* =================== lua_map.c: the constructors ====================== *)
MaxMaps == 3

\* The heap after one more backend instance was allocated by constructor
\* call by: radix_create_compressed and g_hash_table_new allocate from the
\* heap, rspamd_mempool_alloc from cfg_pool, which releases its memory
\* itself when the configuration goes.
NewInstance(heap, kind, mem, by) ==
    Append(heap, [kind |-> kind, mem |-> mem, by |-> by, live |-> TRUE])

\* radix_destroy_compressed / g_hash_table_destroy of instance i.
DestroyInstance(heap, i) == [heap EXCEPT ![i].live = FALSE]

\* lua_config_add_radix_map, lua_config_add_hash_map, lua_config_add_kv_map
\* as <<heap, call record>>: the backend is allocated, rspamd_map_add is
\* called with its address (ok: it returned a map), and on NULL the
\* backend is destroyed and nil returned.
AddBackedMap(heap, ctor, kind, ok) ==
    LET by == Len(made) + 1
        h1 == NewInstance(heap, kind, "heap", by)
        p == Len(h1)
    IN IF ok
       THEN <<h1, [ctor |-> ctor, ret |-> "map", data |-> p]>>
       ELSE <<DestroyInstance(h1, p),
              [ctor |-> ctor, ret |-> "nil", data |-> NULL]>>

\* lua_config_radix_from_config as <<heap, call record>>: with the option
\* found, map->data.radix is assigned radix_create_compressed () twice
\* before the list is added to it; without it nothing is allocated.
EmbeddedRadix(heap, found) ==
    LET by == Len(made) + 1
        h1 == NewInstance(heap, "radix", "heap", by)
        h2 == NewInstance(h1, "radix", "heap", by)
    IN IF found
       THEN <<h2, [ctor |-> "radix_from_config", ret |-> "map",
                   data |-> Len(h2)]>>
       ELSE <<heap, [ctor |-> "radix_from_config", ret |-> "nil",
                     data |-> NULL]>>

\* lua_config_add_map as <<heap, call record>>: the callback state comes
\* from cfg_pool; when rspamd_map_add returns NULL nil is returned and the
\* state stays in the pool.
CallbackMap(heap, ok) ==
    LET by == Len(made) + 1
        h1 == NewInstance(heap, "cbdata", "pool", by)
    IN <<h1, [ctor |-> "add_map", ret |-> IF ok THEN "map" ELSE "nil",
              data |-> IF ok THEN Len(h1) ELSE NULL]>>

CtorIdle ==
    /\ insts = <<>>
    /\ made = <<>>

CtorInit ==
    /\ insts = <<>>
    /\ made = <<>>

lua_config_add_radix_map(ok) ==
    /\ Len(made) < MaxMaps
    /\ LET r == AddBackedMap(insts, "add_radix_map", "radix", ok)
       IN /\ insts' = r[1]
          /\ made' = Append(made, r[2])
    /\ UNCHANGED exceptCtor

lua_config_radix_from_config(found) ==
    /\ Len(made) < MaxMaps
    /\ LET r == EmbeddedRadix(insts, found)
       IN /\ insts' = r[1]
          /\ made' = Append(made, r[2])
    /\ UNCHANGED exceptCtor

lua_config_add_hash_map(ok) ==
    /\ Len(made) < MaxMaps
    /\ LET r == AddBackedMap(insts, "add_hash_map", "hash", ok)
       IN /\ insts' = r[1]
          /\ made' = Append(made, r[2])
    /\ UNCHANGED exceptCtor

lua_config_add_kv_map(ok) ==
    /\ Len(made) < MaxMaps
    /\ LET r == AddBackedMap(insts, "add_kv_map", "hash", ok)
       IN /\ insts' = r[1]
          /\ made' = Append(made, r[2])
    /\ UNCHANGED exceptCtor

lua_config_add_callback_map(ok) ==
    /\ Len(made) < MaxMaps
    /\ LET r == CallbackMap(insts, ok)
       IN /\ insts' = r[1]
          /\ made' = Append(made, r[2])
    /\ UNCHANGED exceptCtor

CtorNext ==
    \/ \E ok \in BOOLEAN : lua_config_add_radix_map(ok)
    \/ \E found \in BOOLEAN : lua_config_radix_from_config(found)
    \/ \E ok \in BOOLEAN : lua_config_add_hash_map(ok)
    \/ \E ok \in BOOLEAN : lua_config_add_kv_map(ok)
    \/ \E ok \in BOOLEAN : lua_config_add_callback_map(ok)

(* =========================== specifications ============================ *)
Init ==
    MapInit /\ RsaIdle /\ FileIdle /\ SaveIdle /\ HdlIdle /\ CtorIdle

Spec == Init /\ [][Next]_vars

InitRsa ==
    RsaInit /\ MapIdle /\ FileIdle /\ SaveIdle /\ HdlIdle /\ CtorIdle

SpecRsa == InitRsa /\ [][RsaNext]_vars

InitFile ==
    FileInit /\ MapIdle /\ RsaIdle /\ SaveIdle /\ HdlIdle /\ CtorIdle

SpecFile == InitFile /\ [][FileNext]_vars

InitSave ==
    SaveInit /\ MapIdle /\ RsaIdle /\ FileIdle /\ HdlIdle /\ CtorIdle

SpecSave == InitSave /\ [][SaveNext]_vars

InitHdl ==
    HdlInit /\ MapIdle /\ RsaIdle /\ FileIdle /\ SaveIdle /\ CtorIdle

SpecHandle == InitHdl /\ [][HdlNext]_vars

InitLookup ==
    LookupInit /\ MapIdle /\ RsaIdle /\ FileIdle /\ SaveIdle /\ CtorIdle

SpecLookup == InitLookup /\ [][LookupNext]_vars

InitCtor ==
    CtorInit /\ MapIdle /\ RsaIdle /\ FileIdle /\ SaveIdle /\ HdlIdle

SpecCtor == InitCtor /\ [][CtorNext]_vars

(* ============================== claims ================================ *)

\* C1: in a cycle whose first chunk found a handler registered in the
\* callback state and whose chunks have a total length above zero,
\* lua_map_fin calls the handler exactly once, with the concatenation of
\* the delivered chunks in delivery order.
C1_HandlerGetsConcatenation ==
    (fin.done /\ fin.hadCb /\ SumLen(delivered) > 0)
        => /\ Len(fin.calls) = 1
           /\ fin.calls[1].buf = Concat(delivered)

\* C1 witness: the second cycle delivered <<1>> then <<2>> and the handler
\* received <<1, 2>>.
C1_Witness ==
    /\ cyc = 2
    /\ fin.done
    /\ fin.hadCb
    /\ delivered = << <<1>>, <<2>> >>
    /\ Len(fin.calls) = 1
    /\ fin.calls[1].buf = <<1, 2>>

\* C2: whatever the interleaving of set_callback with the chunks of a
\* cycle, the handler lua_map_fin calls is the newest registration, and a
\* cycle with data and a registration made before its finalize calls it.
C2_NewestRegistrationFires ==
    (fin.done /\ SumLen(delivered) > 0 /\ fin.regAtFin # NoRef)
        => /\ Len(fin.calls) = 1
           /\ fin.calls[1].ref = fin.regAtFin

\* C3: on a signed map with a trusted key, lua_map_fin hands a buffer to the
\* handler only if verify returned true for exactly that buffer in the
\* same cycle.
C3_VerifiedBeforeHandler ==
    (fin.done /\ fin.gate /\ fin.calls # <<>>)
        => fin.calls[1].buf \in verifyLog

\* C4: a get_key that reads the backend slot, at any point of a cycle
\* (the handler included), reads a live backend, never a released one.
C4_GetReadsLiveBackend ==
    (lastOp.op = "get_key" /\ lastOp.target # NULL) => lastOp.st = "live"

\* C5: an accumulator handed to the handler in cycle k is released once,
\* in the finalize of cycle k+1, and no accumulator is read or written
\* after its release.
C5_DeferredReleaseNoUseAfterFree ==
    \A o \in ObjIds \ {PoolObj} :
        /\ objs[o].frees <= 1
        /\ (objs[o].handed > 0 /\ objs[o].st = "freed")
               => objs[o].freedAt = objs[o].handed + 1
        /\ ~(lastOp.target = o /\ lastOp.st = "freed")

\* C6: set_callback with a function argument succeeds at every point of the
\* map's life and writes to a live callback state.
C6_SetCallbackAlwaysLive ==
    (lastOp.op = "set_callback" /\ lastOp.res # "invalid callback")
        => /\ lastOp.res = "ok"
           /\ lastOp.st = "live"

\* C7: a finalize of a cycle without chunks reports "no data", calls no
\* handler and leaves the slot pointing to the same live callback state.
C7_NoDataFinalizeKeepsBackend ==
    (fin.done /\ Len(delivered) = 0)
        => /\ fin.nodata
           /\ fin.calls = <<>>
           /\ slot = fin.slotBefore
           /\ Live(slot)

\* C8: a cycle of empty chunks only calls no handler and neither clears nor
\* replaces the backend the slot held.
C8_EmptyCycleKeepsBackend ==
    (fin.done /\ Len(delivered) > 0 /\ SumLen(delivered) = 0)
        => /\ fin.calls = <<>>
           /\ slot = fin.slotBefore
           /\ Live(slot)

\* C9: verify_memory with the matching public key accepts the signature
\* sign_memory made for the same string, zero bytes in it or not.
C9_SignVerifyRoundTrip ==
    (rpc = "verified" /\ tamper.kind = "none") => vres = "true"

\* C9 witness: a string with a zero byte inside was signed and verified.
C9_Witness ==
    /\ rpc = "verified"
    /\ tamper.kind = "none"
    /\ Len(data) = 3
    /\ data[2] = 0
    /\ data[3] # 0
    /\ vres = "true"

\* C10: verify_memory rejects the signature when one bit of the data, at
\* any position, or one bit of the signature was inverted.
C10_SingleBitMutationRejected ==
    (rpc = "verified" /\ tamper.kind \in {"data", "sig"}) => vres = "false"

\* C11: for every content d, verify_memory on d accepts the signature
\* sign_file made for a file holding d, and verify_file on a file holding d
\* accepts the signature sign_memory made for d (same key pair, the file
\* being readable).
C11_FileAndMemoryDigestsAgree ==
    (/\ fpc = "verified"
     /\ fio.key = 1
     /\ fio.env = "ok"
     /\ \/ fsig.by = "file" /\ fio.op = "verify_memory"
        \/ fsig.by = "memory" /\ fio.op = "verify_file")
        => fres = "true"

\* C12: a save without forced on an existing path returns false and leaves
\* the file as it was; a save with forced on an existing path that the
\* system lets it open and write returns true and leaves a file made of the
\* signature's bytes only, none of the earlier content; a save without
\* forced on a fresh path succeeds and leaves the path existing, so that a
\* second one fails.
C12_SaveExclusiveOrForced ==
    lastSave.done =>
        /\ (~lastSave.forced /\ lastSave.existed)
              => ~lastSave.res /\ sfile = lastSave.before
        /\ (lastSave.forced /\ lastSave.existed /\ lastSave.sysOk
               /\ lastSave.ret # -1)
              => lastSave.res /\ IsPrefix(sfile.bytes, ssig)
        /\ (~lastSave.forced /\ ~lastSave.existed /\ lastSave.sysOk
               /\ lastSave.ret # -1)
              => lastSave.res
        /\ lastSave.res => sfile.exists

\* C12 witness: a forced save over a file of three earlier bytes returned
\* true and the file holds the two bytes of the signature.
C12_Witness ==
    /\ lastSave.done
    /\ lastSave.forced
    /\ lastSave.before = [exists |-> TRUE, bytes |-> <<3, 3, 3>>]
    /\ lastSave.res
    /\ Len(ssig) = 2
    /\ sfile.bytes = ssig

\* C13: whenever save returns true the file holds exactly the signature's
\* bytes, whatever the write calls did (interrupted, short), and a write
\* error other than an interruption makes save return false.
C13_SaveWritesEveryByte ==
    lastSave.done =>
        /\ lastSave.res => sfile.bytes = ssig
        /\ (lastSave.sysOk /\ lastSave.ret = -1) => ~lastSave.res

C15_EmbeddedHasNoKey ==
    hdl.ctor = "radix_from_config" =>
        /\ hkey = NULL
        /\ (lastCall.op = "set_sign_key" /\ lastCall.hasStr)
              => /\ lastCall.res = "cannot set key for embedded maps"
                 /\ ~lastCall.parsed
                 /\ keys = <<>>
        /\ lastCall.op = "get_sign_key" => lastCall.res = "nil"
        /\ lastCall.op = "is_signed" => lastCall.res = "false"

\* C15 witness: set_sign_key with a well-formed key on an embedded handle
\* raised the embedded-map error.
C15_Witness ==
    /\ hdl.ctor = "radix_from_config"
    /\ lastCall.op = "set_sign_key"
    /\ lastCall.hasStr
    /\ lastCall.arg = "kA"
    /\ lastCall.res = "cannot set key for embedded maps"

\* C16: on a handle made by registering a source, set_sign_key with a
\* string that is no key raises the invalid-key error and leaves the
\* trusted key installed and unreleased; with a key it installs the new key
\* and releases the previous one once; get_sign_key returns the base32 form
\* of the key of the last successful call; every key but the installed one
\* is released.
C16_SetTrustedKeyInstalls ==
    hdl.ctor # "radix_from_config" =>
        /\ (/\ lastCall.op = "set_sign_key"
            /\ lastCall.hasStr
            /\ rspamd_pubkey_from_base32(lastCall.arg) = NULL)
              => /\ lastCall.res = "invalid pubkey string"
                 /\ hkey = lastCall.keyBefore
        /\ (/\ lastCall.op = "set_sign_key"
            /\ lastCall.hasStr
            /\ rspamd_pubkey_from_base32(lastCall.arg) # NULL)
              => /\ lastCall.res = "ok"
                 /\ hkey = Len(keys)
                 /\ hkey # lastCall.keyBefore
                 /\ keys[hkey].val = rspamd_pubkey_from_base32(lastCall.arg)
        /\ lastCall.op = "get_sign_key"
              => lastCall.res = (IF lastOkStr = "" THEN "nil" ELSE lastOkStr)
        /\ \A k \in 1 .. Len(keys) :
              keys[k].refs = (IF k = hkey THEN 1 ELSE 0)

\* C17: get_proto returns "file", "http" or "embedded", "embedded" exactly
\* for a handle built from static configuration; for a handle made by
\* registering a source it returns the source's protocol and get_uri the
\* source's uri.
C17_ProtocolAndUri ==
    /\ lastCall.op = "get_proto"
          => /\ lastCall.res \in {"file", "http", "embedded"}
             /\ (lastCall.res = "embedded")
                   <=> (hdl.ctor = "radix_from_config")
             /\ hdl.ctor # "radix_from_config"
                   => lastCall.res = (IF hdl.protocol = "MAP_PROTO_FILE"
                                      THEN "file" ELSE "http")
    /\ (lastCall.op = "get_uri" /\ hdl.ctor # "radix_from_config")
          => lastCall.res = hdl.uri /\ lastCall.res # "embedded"

C19_RadixThreeInputForms ==
    (/\ lastGet.done
     /\ hdl.type = "RSPAMD_LUA_MAP_RADIX"
     /\ \/ lastGet.input.form = "number"
        \/ lastGet.input.addr # <<>>)
        => /\ lastGet.res.type = "boolean"
           /\ (lastGet.res.val = "true")
                 <=> RadixCovers(backend.radix,
                                 IF lastGet.input.form = "number"
                                 THEN BigEndian(lastGet.input.num)
                                 ELSE lastGet.input.addr)

\* C20: get_key on a key-value map with a string returns the string of the
\* key when the map has it and nil when not, never a boolean; on a set it
\* returns a boolean for every input.
C20_KeyValueStringOrNil ==
    /\ (/\ lastGet.done
        /\ hdl.type = "RSPAMD_LUA_MAP_HASH"
        /\ lastGet.input.form = "string")
          => /\ lastGet.res.type # "boolean"
             /\ IF HasKey(backend.hash, lastGet.input.str)
                THEN /\ lastGet.res.type = "string"
                     /\ \E k \in DOMAIN backend.hash :
                           /\ Lower(k) = Lower(lastGet.input.str)
                           /\ lastGet.res.val = backend.hash[k]
                ELSE lastGet.res.type = "nil"
    /\ (lastGet.done /\ hdl.type = "RSPAMD_LUA_MAP_SET")
          => lastGet.res.type = "boolean"
\* C21: when the handler call of cycle k raises, lua_map_fin logs the
\* failure and returns with the Lua stack at the depth it had on entry, the
\* accumulator of cycle k becomes the slot's content, still live; and when
\* cycle k+1 delivers data, its lua_map_fin releases that accumulator and
\* calls the handler once more, with the chunks of cycle k+1 alone.
C21_HandlerErrorIsContained ==
    /\ (fin.done /\ fin.inHandler = "error")
          => /\ fin.logged
             /\ fin.top = 0
             /\ Live(slot)
             /\ slot # fin.slotBefore
             /\ objs[slot].handed = cyc
             /\ objs[slot].data = Concat(delivered)
    /\ (fin.done /\ fin.prevRaised)
          => /\ fin.freed # NULL
             /\ objs[fin.freed].st = "freed"
             /\ objs[fin.freed].handed = cyc - 1
             /\ objs[fin.freed].freedAt = cyc
             /\ objs[fin.freed].frees = 1
    /\ (fin.done /\ fin.prevRaised /\ SumLen(delivered) > 0)
          => /\ Len(fin.calls) = 1
             /\ fin.calls[1].buf = Concat(delivered)

\* C21 witness: the handler raised in the first cycle, and the second cycle
\* delivered <<2>> alone and called the handler with <<2>>.
C21_Witness ==
    /\ cyc = 2
    /\ fin.done
    /\ fin.prevRaised
    /\ delivered = << <<2>> >>
    /\ fin.calls = <<[ref |-> 1, buf |-> <<2>>]>>
    /\ fin.top = 0
    /\ objs[2].st = "freed"
    /\ objs[2].handed = 1
\* C22: after any sequence of completed cycles, among them cycles that
\* delivered no chunk, had no handler or had a failing one, the chunk that
\* starts a cycle finds a live previous callback state to copy L, ref and
\* lua_map from: it is neither NULL nor released, and no read crashes.
C22_NextChunkFindsLivePrevious ==
    /\ pc # "crashed"
    /\ (pc = "cycle" /\ cur_data = NULL) => Live(prev_data)

\* C23: lua_map_fin releases only states that lua_map_read allocated; the
\* state lua_config_add_map placed in cfg_pool is never released, the
\* first lua_map_fin included, where it is prev_data.
C23_ConstructorStateNeverReleased ==
    /\ objs[PoolObj].st = "live"
    /\ objs[PoolObj].frees = 0
    /\ fin.done => fin.freed # PoolObj
\* C24: lua_map_get_key reads the member of map->data that the handle's
\* constructor assigned, the trie for a radix map and the hash table for a
\* set or key-value map; on a callback map it makes no hash-table lookup
\* on the callback state and returns false.
C24_GetReadsMatchingPayload ==
    lastGet.done
        => /\ lastGet.member \in {"none", DataMember(hdl)}
           /\ hdl.type = "RSPAMD_LUA_MAP_CALLBACK"
                 => /\ lastGet.member # "hash"
                    /\ lastGet.res = [type |-> "boolean", val |-> "false"]
\* C25: for a signature of any length, the empty one included, when save
\* returned true and the system lets the file be opened and mapped, load of
\* the same path returns a signature holding the bytes of the saved one,
\* not nil.
C25_SaveLoadRoundTrip ==
    (lastSave.done /\ lastSave.res /\ lastLoad.done /\ lastLoad.env = "ok")
        => /\ lastLoad.res = "signature"
           /\ lastLoad.bytes = ssig
\* C26: after each constructor call that returned a handle, exactly one
\* backend instance that call allocated is live and it is the one the
\* handle references; after a call that returned nil because
\* rspamd_map_add gave NULL, no heap instance it allocated is live; and
\* every live instance is referenced by a handle or belongs to cfg_pool.
C26_OneOwnedBackendPerHandle ==
    /\ \A c \in 1 .. Len(made) :
          LET mine == {i \in 1 .. Len(insts) :
                          insts[i].by = c /\ insts[i].live}
          IN IF made[c].ret = "map"
             THEN mine = {made[c].data}
             ELSE \A i \in mine : insts[i].mem = "pool"
    /\ \A i \in 1 .. Len(insts) :
          insts[i].live
              => \/ insts[i].mem = "pool"
                 \/ \E c \in 1 .. Len(made) :
                       made[c].ret = "map" /\ made[c].data = i

====
